---- MODULE Spec2Model ----
(***************************************************************************)
(* ton-wallet-switcher: a model of the command line program.               *)
(*                                                                         *)
(* One step of the model is one run of the program (one command): the run  *)
(* starts from the config file and the directories the earlier runs left,  *)
(* and `clean` says that no run so far ended with an error.  The           *)
(* repository holds two builds of package main: the split one              *)
(* (src/unnamed/part_001 with src/input.go) that has the `remove` command, *)
(* and the single-file one (src/main.go). The variable `build` says which  *)
(* one is installed; the operators whose code differs between the two      *)
(* exist twice (Switch / SwitchMain, ...).                                 *)
(*                                                                         *)
(* A run works on a process record m:                                      *)
(*   cfg   the Config struct in memory                                     *)
(*   file  the config file on disk                                         *)
(*   fs    the directory entries, per directory and name                   *)
(*   cwd   the working directory of the process                            *)
(*   ops   the system calls made so far (rename, chdir, write, removeall)  *)
(*   err   "" or the error that ended the run                              *)
(*   faults the unexpected file system failures so far                     *)
(*   tty   the lines the terminal can deliver at each kind of prompt       *)
(* Operations read lines from the terminal; an operation therefore maps a  *)
(* process record to the SET of process records it can end in, one per     *)
(* choice of typed lines (and per outcome of a system call).               *)
(***************************************************************************)
EXTENDS Integers, Sequences, FiniteSets, TLC

VARIABLES build, file, fs, faults, clean

vars == <<build, file, fs, faults, clean>>

\* ---------------------------------------------------------------- bounds
\* number of lines the terminal delivers to one name prompt before it ends
MaxPrompts == 2
\* number of unexpected file system failures (EIO) over all runs
MaxFaults == 1

\* ------------------------------------------------------------- constants
currentWalletDirName == "data"

SplitBuild == "part_001"
MainBuild == "main.go"
Builds == {SplitBuild, MainBuild}

\* the wallets directory and some other directory the program is started in
Root == "root"
Other == "other"
Dirs == {Root, Other}

\* names of directory entries, in the order os.ReadDir lists them (sorted)
SortedNames == <<"a", "data", "z">>
FsNames == {SortedNames[i] : i \in 1..Len(SortedNames)}

\* what the user can type at a name prompt / give as the WALLET argument
NameLines == {"", "a", "data", "z"}
\* what the user can type at a description prompt
DescLines == {"", "d"}
\* what the user can type at the confirmation prompt of remove
ConfirmLines == {"yes", "no", "", "Yes", "yes "}
\* the terminal reached end of input
EOF == "<EOF>"

\* directory entries: nothing, a regular file, a directory without the
\* marker file, or a wallet directory (a directory holding "salt"),
\* told apart by its content
Absent == "absent"
File == "file"
NoSalt == "nosalt"
WalletContents == {"w1", "w2", "w3", "w4"}

\* errors
AlreadyActive == "AlreadyActive"
NotFound == "NotFound"
NotADirectory == "NotADirectory"
NotAWalletDirectory == "NotAWalletDirectory"
Aborted == "Aborted"
IOError == "IOError"
ScanFailed == "ScanFailed"
Usage == "Usage"
NoConfigFile == "NoConfigFile"

ENOENT == "ENOENT"
EEXIST == "EEXIST"
ENOTDIR == "ENOTDIR"
EIO == "EIO"

\* ------------------------------------------------------------------ maps
EmptyMap == [x \in {} |-> ""]
Put(f, k, v) == [x \in (DOMAIN f) \cup {k} |-> IF x = k THEN v ELSE f[x]]
Del(f, k) == [x \in (DOMAIN f) \ {k} |-> f[x]]
\* Go's map index expression: the zero value for a missing key
Index(f, k) == IF k \in DOMAIN f THEN f[k] ELSE ""

\* ---------------------------------------------------------------- Config
ZeroConfig == [WalletsDir |-> "", CurrentWallet |-> "", Wallets |-> EmptyMap]

NoFile == [present |-> FALSE, cfg |-> ZeroConfig]

Ok(m) == m.err = ""
Fail(m, e) == [m EXCEPT !.err = e]

Call(m, op, old, new, errno) ==
    [m EXCEPT !.ops = Append(@, [op |-> op, old |-> old, new |-> new,
                                  cwd |-> m.cwd, errno |-> errno])]

\* scanLine: a line of the given alphabet, or the end of the input
scanLine(lines) == lines \cup {EOF}

\* -------------------------------------------------------------- os calls
IsDirEntry(e) == e \notin {Absent, File}

Entry(dirfs, name) == IF name \in FsNames THEN dirfs[name] ELSE Absent

\* mutant: os.Rename without the refusal of an existing directory as new path
RenameErrnoOverwrite(dirfs, old, new) ==
    IF Entry(dirfs, old) = Absent THEN ENOENT
    ELSE IF new \notin FsNames THEN ENOENT
    ELSE IF dirfs[new] = File /\ IsDirEntry(dirfs[old]) THEN ENOTDIR
    ELSE ""

\* the error os.Rename(old, new) ends with in a directory with entries dirfs:
\* a missing old path (or an empty path) is ENOENT; Go's os.Rename refuses an
\* existing directory as new path (EEXIST); the system call refuses to put a
\* directory over a file (ENOTDIR); a file replaces a file
RenameErrno(dirfs, old, new) ==
    IF Entry(dirfs, old) = Absent THEN ENOENT
    ELSE IF new \notin FsNames THEN ENOENT
    ELSE IF IsDirEntry(dirfs[new]) THEN EEXIST
    ELSE IF dirfs[new] = File /\ IsDirEntry(dirfs[old]) THEN ENOTDIR
    ELSE ""

Moved(dirfs, old, new) ==
    IF old = new THEN dirfs
    ELSE [dirfs EXCEPT ![new] = dirfs[old], ![old] = Absent]

\* a system call failing for a reason outside the program, changing nothing
Faulty(m, op, old, new) ==
    IF m.faults < MaxFaults
    THEN {[m |-> [Call(m, op, old, new, EIO) EXCEPT !.faults = @ + 1], errno |-> EIO]}
    ELSE {}

\* os.Rename relative to the working directory: its regular outcome, or an
\* unexpected failure of the file system that changes nothing
Rename(m, old, new) ==
    LET dirfs == m.fs[m.cwd]
        e == RenameErrno(dirfs, old, new)
        done == IF e = "" THEN [m EXCEPT !.fs[m.cwd] = Moved(dirfs, old, new)]
                ELSE m
    IN  {[m |-> Call(done, "rename", old, new, e), errno |-> e]}
        \cup Faulty(m, "rename", old, new)

\* os.RemoveAll relative to the working directory
RemoveAll(m, name) ==
    LET done == IF name \in FsNames THEN [m EXCEPT !.fs[m.cwd][name] = Absent]
                ELSE m
    IN  {[m |-> Call(done, "removeall", name, "", ""), errno |-> ""]}
        \cup Faulty(m, "removeall", name, "")

\* ------------------------------------------------------------- discovery
isWalletDir(m, walletsDir, walletDir) ==
    Entry(m.fs[walletsDir], walletDir) \in WalletContents

getWallets(m, walletsDir) ==
    SelectSeq(SortedNames, LAMBDA n : isWalletDir(m, walletsDir, n))

\* ------------------------------------------------------------- addWallet
\* mutant: the prompt takes whatever name is typed
NamePromptAny(lines, default, k) ==
    { IF l = EOF THEN EOF ELSE IF l = "" THEN default ELSE l
    : l \in scanLine(lines) }

RECURSIVE NamePrompt(_, _, _)
\* the loop of addWallet and Edit, the terminal delivering lines of `lines`:
\* the name the prompt ends with, or EOF
NamePrompt(lines, default, k) ==
    UNION { IF l = EOF THEN {EOF}
            ELSE LET walletName == IF l = "" THEN default ELSE l
                 IN  IF walletName # currentWalletDirName THEN {walletName}
                     ELSE IF k > 1 THEN NamePrompt(lines, default, k - 1)
                     ELSE {EOF}
          : l \in scanLine(lines) }

addWallet(m, walletDirName, changeCurrentWallet) ==
    LET names == IF walletDirName = currentWalletDirName
                 THEN NamePrompt(m.tty.names, walletDirName, MaxPrompts)
                 ELSE {walletDirName}
    IN  UNION { IF walletName = EOF THEN {Fail(m, ScanFailed)}
                ELSE LET m1 == IF changeCurrentWallet
                                  /\ walletDirName = currentWalletDirName
                               THEN [m EXCEPT !.cfg.CurrentWallet = walletName]
                               ELSE m
                     IN  { IF d = EOF THEN Fail(m1, ScanFailed)
                           ELSE [m1 EXCEPT !.cfg.Wallets = Put(@, walletName, d)]
                         : d \in scanLine(m.tty.descs) }
              : walletName \in names }

\* ---------------------------------------------------------------- Switch
\* mutant: the renames are made but CurrentWallet is not set
SwitchRenamesKeepCurrent(m, walletName) ==
    LET back == IF m.cfg.CurrentWallet # ""
                THEN { IF r.errno # "" THEN Fail(r.m, IOError) ELSE r.m
                     : r \in Rename(m, currentWalletDirName, m.cfg.CurrentWallet) }
                ELSE {m}
    IN  UNION { IF ~Ok(x) THEN {x}
                ELSE { IF r.errno \notin {"", ENOENT} THEN Fail(r.m, IOError)
                       ELSE r.m
                     : r \in Rename(x, walletName, currentWalletDirName) }
              : x \in back }

\* mutant: the slot directory is not renamed back to the active wallet's name
SwitchRenamesNoBack(m, walletName) ==
    { IF r.errno \notin {"", ENOENT} THEN Fail(r.m, IOError)
      ELSE [r.m EXCEPT !.cfg.CurrentWallet = walletName]
    : r \in Rename(m, walletName, currentWalletDirName) }

SwitchRenames(m, walletName) ==
    LET back == IF m.cfg.CurrentWallet # ""
                THEN { IF r.errno # "" THEN Fail(r.m, IOError) ELSE r.m
                     : r \in Rename(m, currentWalletDirName, m.cfg.CurrentWallet) }
                ELSE {m}
    IN  UNION { IF ~Ok(x) THEN {x}
                ELSE { IF r.errno \notin {"", ENOENT} THEN Fail(r.m, IOError)
                       ELSE [r.m EXCEPT !.cfg.CurrentWallet = walletName]
                     : r \in Rename(x, walletName, currentWalletDirName) }
              : x \in back }

\* mutant: no check for the wallet being the active one
SwitchNoActiveCheck(m, walletName) ==
    IF walletName \notin DOMAIN m.cfg.Wallets THEN {Fail(m, NotFound)}
    ELSE SwitchRenames(m, walletName)

\* Switch of src/unnamed/part_001
Switch(m, walletName) ==
    IF m.cfg.CurrentWallet = walletName THEN {Fail(m, AlreadyActive)}
    ELSE IF walletName \notin DOMAIN m.cfg.Wallets THEN {Fail(m, NotFound)}
    ELSE SwitchRenames(m, walletName)

\* Switch of src/main.go
SwitchMain(m, walletName) ==
    IF m.cfg.CurrentWallet = walletName THEN {Fail(m, AlreadyActive)}
    ELSE SwitchRenames(m, walletName)

DoSwitch(m, walletName) ==
    IF build = MainBuild THEN SwitchMain(m, walletName) ELSE Switch(m, walletName)

switchToFirstWallet(m) ==
    IF DOMAIN m.cfg.Wallets = {} THEN {m}
    ELSE UNION { DoSwitch(m, name) : name \in DOMAIN m.cfg.Wallets }

\* ------------------------------------------------------------------ Edit
\* Edit after the presence check: the two prompts, the rename, the map update
EditBody(m, walletName) ==
    UNION { IF newWalletName = EOF THEN {Fail(m, ScanFailed)}
            ELSE UNION { IF l = EOF THEN {Fail(m, ScanFailed)}
                         ELSE LET newWalletDescription ==
                                      IF l = "" THEN Index(m.cfg.Wallets, walletName)
                                      ELSE l
                                  moved ==
                                      IF m.cfg.CurrentWallet = walletName
                                      THEN {[m EXCEPT !.cfg.CurrentWallet = newWalletName]}
                                      ELSE IF newWalletName # walletName
                                      THEN { IF r.errno # "" THEN Fail(r.m, IOError)
                                             ELSE r.m
                                           : r \in Rename(m, walletName, newWalletName) }
                                      ELSE {m}
                              IN  { IF ~Ok(x) THEN x
                                    ELSE LET set == Put(x.cfg.Wallets, newWalletName,
                                                        newWalletDescription)
                                         IN  [x EXCEPT !.cfg.Wallets =
                                                 IF walletName # newWalletName
                                                 THEN Del(set, walletName) ELSE set]
                                  : x \in moved }
                       : l \in scanLine(m.tty.descs) }
          : newWalletName \in NamePrompt(m.tty.names, walletName, MaxPrompts) }

\* Edit of src/unnamed/part_001
Edit(m, walletName) ==
    IF walletName \notin DOMAIN m.cfg.Wallets THEN {Fail(m, NotFound)}
    ELSE EditBody(m, walletName)

\* Edit of src/main.go
EditMain(m, walletName) ==
    IF Index(m.cfg.Wallets, walletName) = "" THEN {Fail(m, NotFound)}
    ELSE EditBody(m, walletName)

DoEdit(m, walletName) ==
    IF build = MainBuild THEN EditMain(m, walletName) ELSE Edit(m, walletName)

\* ------------------------------------------------------------------- Add
Add(m, walletDirName) ==
    LET e == Entry(m.fs[m.cwd], walletDirName)
        exists == e # Absent
    IN  IF exists /\ ~IsDirEntry(e) THEN {Fail(m, NotADirectory)}
        ELSE IF exists /\ ~isWalletDir(m, m.cfg.WalletsDir, walletDirName)
        THEN {Fail(m, NotAWalletDirectory)}
        ELSE UNION { IF Ok(x) THEN DoSwitch(x, walletDirName) ELSE {x}
                   : x \in addWallet(m, walletDirName, FALSE) }

\* ---------------------------------------------------------------- Forget
\* Forget after the presence check
ForgetBody(m, walletName) ==
    IF m.cfg.CurrentWallet = walletName
    THEN UNION { IF r.errno \notin {"", ENOENT} THEN {Fail(r.m, IOError)}
                 ELSE switchToFirstWallet(
                        [r.m EXCEPT !.cfg.Wallets = Del(@, walletName),
                                    !.cfg.CurrentWallet = ""])
               : r \in Rename(m, currentWalletDirName, walletName) }
    ELSE {[m EXCEPT !.cfg.Wallets = Del(@, walletName)]}

\* Forget of src/unnamed/part_001
Forget(m, walletName) ==
    IF walletName \notin DOMAIN m.cfg.Wallets THEN {Fail(m, NotFound)}
    ELSE ForgetBody(m, walletName)

\* Forget of src/main.go
ForgetMain(m, walletName) ==
    IF Index(m.cfg.Wallets, walletName) = "" THEN {Fail(m, NotFound)}
    ELSE ForgetBody(m, walletName)

DoForget(m, walletName) ==
    IF build = MainBuild THEN ForgetMain(m, walletName) ELSE Forget(m, walletName)

\* ---------------------------------------------------------------- Remove
\* mutant: the confirmation is compared without its case and trailing blanks
RemoveLoose(m, walletName) ==
    IF walletName \notin DOMAIN m.cfg.Wallets THEN {Fail(m, NotFound)}
    ELSE UNION { IF confirmation = EOF THEN {Fail(m, ScanFailed)}
                 ELSE IF confirmation \in {"yes", "Yes", "yes "}
                 THEN UNION { IF ~Ok(x) THEN {x}
                              ELSE { IF r.errno # "" THEN Fail(r.m, IOError) ELSE r.m
                                   : r \in RemoveAll(x, walletName) }
                            : x \in Forget(m, walletName) }
                 ELSE {Fail(m, Aborted)}
               : confirmation \in scanLine(m.tty.confirms) }

\* mutant: the directory is deleted before Forget is performed
RemoveThenForget(m, walletName) ==
    IF walletName \notin DOMAIN m.cfg.Wallets THEN {Fail(m, NotFound)}
    ELSE UNION { IF confirmation = EOF THEN {Fail(m, ScanFailed)}
                 ELSE IF confirmation = "yes"
                 THEN UNION { IF r.errno # "" THEN {Fail(r.m, IOError)}
                              ELSE Forget(r.m, walletName)
                            : r \in RemoveAll(m, walletName) }
                 ELSE {Fail(m, Aborted)}
               : confirmation \in scanLine(m.tty.confirms) }

\* Remove exists in src/unnamed/part_001 only
Remove(m, walletName) ==
    IF walletName \notin DOMAIN m.cfg.Wallets THEN {Fail(m, NotFound)}
    ELSE UNION { IF confirmation = EOF THEN {Fail(m, ScanFailed)}
                 ELSE IF confirmation = "yes"
                 THEN UNION { IF ~Ok(x) THEN {x}
                              ELSE { IF r.errno # "" THEN Fail(r.m, IOError) ELSE r.m
                                   : r \in RemoveAll(x, walletName) }
                            : x \in Forget(m, walletName) }
                 ELSE {Fail(m, Aborted)}
               : confirmation \in scanLine(m.tty.confirms) }

\* ------------------------------------------------------------------ Init
RECURSIVE InitLoop(_, _)
InitLoop(S, wallets) ==
    IF wallets = <<>> THEN S
    ELSE InitLoop(UNION { IF Ok(x) THEN addWallet(x, Head(wallets), TRUE) ELSE {x}
                        : x \in S },
                  Tail(wallets))

Init_(m) ==
    LET wallets == getWallets(m, m.cfg.WalletsDir)
        m0 == [m EXCEPT !.cfg.Wallets = EmptyMap, !.cfg.CurrentWallet = ""]
    IN  {Fail(r.m, IOError) : r \in Faulty(m, "readdir", m.cfg.WalletsDir, "")}
        \cup UNION { IF Ok(x) /\ x.cfg.CurrentWallet = ""
                     THEN switchToFirstWallet(x) ELSE {x}
                   : x \in InitLoop({m0}, wallets) }

\* ------------------------------------------------------------------ main
writeConfig(m) ==
    [Call(m, "write", "", "", "") EXCEPT !.file = [present |-> TRUE, cfg |-> m.cfg]]

\* mutant: the config is written whether the operation failed or not
wrapSubcommandAlways(S) == { writeConfig(x) : x \in S }

\* wrapSubcommand applied to the outcomes of an operation
wrapSubcommand(S) == { IF Ok(x) THEN writeConfig(x) ELSE x : x \in S }

getWalletsDir == Root

Chdir(m, dir) == [Call(m, "chdir", dir, "", "") EXCEPT !.cwd = dir]

\* loadConfig; done says that the process exited inside it
loadConfig(m) ==
    LET m1 == [m EXCEPT !.cfg = IF m.file.present THEN m.file.cfg ELSE ZeroConfig]
        m2 == IF m1.cfg.WalletsDir = ""
              THEN [m1 EXCEPT !.cfg.WalletsDir = getWalletsDir] ELSE m1
        m3 == Chdir(m2, m2.cfg.WalletsDir)
    IN  IF m.file.present THEN {[m |-> m3, done |-> FALSE]}
        ELSE {[m |-> x, done |-> TRUE] : x \in wrapSubcommand(Init_(m3))}

\* the lines the terminal can deliver at the three kinds of prompt
Terminal == [names |-> NameLines, descs |-> DescLines, confirms |-> ConfirmLines]

Process(launch) ==
    [cfg |-> ZeroConfig, file |-> file, fs |-> fs, cwd |-> launch,
     ops |-> <<>>, err |-> "", faults |-> faults, tty |-> Terminal]

mainSwitch(m, argument) ==
    UNION { IF r.done THEN {r.m} ELSE wrapSubcommand(DoSwitch(r.m, argument))
          : r \in loadConfig(m) }

mainInit(m) ==
    IF build = MainBuild /\ ~m.file.present THEN {Fail(m, NoConfigFile)}
    ELSE wrapSubcommand(Init_([m EXCEPT !.cfg.WalletsDir = getWalletsDir]))

\* Status only prints
mainStatus(m) == { r.m : r \in loadConfig(m) }

mainEdit(m, argument) ==
    UNION { IF r.done THEN {r.m} ELSE wrapSubcommand(DoEdit(r.m, argument))
          : r \in loadConfig(m) }

mainAdd(m, argument) ==
    UNION { IF r.done THEN {r.m} ELSE wrapSubcommand(Add(r.m, argument))
          : r \in loadConfig(m) }

mainForget(m, argument) ==
    UNION { IF r.done THEN {r.m} ELSE wrapSubcommand(DoForget(r.m, argument))
          : r \in loadConfig(m) }

\* src/main.go has no case "remove": logHelp("unknown subcommand")
mainRemove(m, argument) ==
    IF build = MainBuild THEN {Fail(m, Usage)}
    ELSE UNION { IF r.done THEN {r.m} ELSE wrapSubcommand(Remove(r.m, argument))
               : r \in loadConfig(m) }

\* --------------------------------------------------------------- actions
\* the process ended as r: what it leaves behind
Finish(r) ==
    /\ file' = r.file
    /\ fs' = r.fs
    /\ faults' = r.faults
    /\ clean' = (clean /\ r.err = "")
    /\ UNCHANGED build

CmdInit ==
    \E launch \in Dirs : \E r \in mainInit(Process(launch)) :
        Finish(r)

CmdStatus ==
    \E launch \in Dirs : \E r \in mainStatus(Process(launch)) :
        Finish(r)

CmdSwitch ==
    \E launch \in Dirs, argument \in NameLines :
        \E r \in mainSwitch(Process(launch), argument) :
            Finish(r)

CmdEdit ==
    \E launch \in Dirs, argument \in NameLines :
        \E r \in mainEdit(Process(launch), argument) :
            Finish(r)

CmdAdd ==
    \E launch \in Dirs, argument \in NameLines :
        \E r \in mainAdd(Process(launch), argument) :
            Finish(r)

CmdForget ==
    \E launch \in Dirs, argument \in NameLines :
        \E r \in mainForget(Process(launch), argument) :
            Finish(r)

CmdRemove ==
    \E launch \in Dirs, argument \in NameLines :
        \E r \in mainRemove(Process(launch), argument) :
            Finish(r)

\* ------------------------------------------------------------------ Init
\* the directories before the first run. The wallets directory holds wallet
\* directories, and under "z" possibly a file or a directory without marker;
\* the other directory is empty
Layout(a, data, z) ==
    [n \in FsNames |-> IF n = "a" THEN a ELSE IF n = "data" THEN data ELSE z]

InitialRoot ==
    { Layout("w1", "w2", "w3"), Layout("w1", Absent, "w3"),
      Layout("w1", "w2", NoSalt), Layout("w1", Absent, File),
      Layout(Absent, Absent, Absent) }

InitialOther == { Layout(Absent, Absent, Absent) }

Init ==
    /\ build \in Builds
    /\ file = NoFile
    /\ fs \in { [d \in Dirs |-> IF d = Root THEN r ELSE o]
              : r \in InitialRoot, o \in InitialOther }
    /\ faults = 0
    /\ clean = TRUE

Next ==
    \/ CmdInit
    \/ CmdStatus
    \/ CmdSwitch
    \/ CmdEdit
    \/ CmdAdd
    \/ CmdForget
    \/ CmdRemove

Spec == Init /\ [][Next]_vars

\* ---------------------------------------------------------------- views
\* the process records at the call of an operation: the config is loaded
\* from the file and the working directory is set
Started ==
    UNION { { r.m : r \in { q \in loadConfig(Process(launch)) : ~q.done } }
          : launch \in Dirs }

\* every way a run of the program can end from the current state
Outcomes ==
    UNION { mainInit(Process(launch)) \cup mainStatus(Process(launch))
            \cup UNION { mainSwitch(Process(launch), argument)
                         \cup mainEdit(Process(launch), argument)
                         \cup mainAdd(Process(launch), argument)
                         \cup mainForget(Process(launch), argument)
                         \cup mainRemove(Process(launch), argument)
                       : argument \in NameLines }
          : launch \in Dirs }

\* the operation returned (nil or an error): the process was not ended inside
\* it by logFatal at the end of the terminal input
Returned(r) == r.err # ScanFailed

\* the run met no unexpected failure of the file system
NoFault(r) == r.faults = faults

Keys(cfg) == DOMAIN cfg.Wallets

SlotDir == fs[Root][currentWalletDirName]

Range(seq) == { seq[i] : i \in 1..Len(seq) }

\* ------------------------------------------------------------------- C1
RecordOk(cfg) ==
    /\ cfg.CurrentWallet = "" \/ cfg.CurrentWallet \in Keys(cfg)
    /\ cfg.CurrentWallet # currentWalletDirName

\* C1: in every reachable state, the record on file and the record in memory
\* when an operation returned (successfully or failing) have activeWallet empty or
\* a key of wallets, and never "data".
C1_ActiveIsKey ==
    /\ file.present => RecordOk(file.cfg)
    /\ \A r \in Outcomes : Returned(r) => RecordOk(r.cfg)

\* ------------------------------------------------------------------- C2
\* C2: after successful runs only, a non-empty activeWallet has its directory
\* at the slot "data" and no directory of the wallets directory is named
\* after it.
C2_ActiveAtSlot ==
    (clean /\ file.present /\ file.cfg.CurrentWallet # "")
        => /\ IsDirEntry(SlotDir)
           /\ Entry(fs[Root], file.cfg.CurrentWallet) = Absent

\* ------------------------------------------------------------------- C3
\* C3: after successful runs only, every key of wallets other than
\* activeWallet names a directory of the wallets directory holding "salt".
C3_InactiveOnDisk ==
    (clean /\ file.present)
        => \A k \in Keys(file.cfg) \ {file.cfg.CurrentWallet} :
               isWalletDir([fs |-> fs], Root, k)

\* ------------------------------------------------------------------- C4
\* C4: "data" is never a key of wallets, neither on file nor in memory at
\* the end of any run, whatever is typed at the name prompts.
C4_NoReservedKey ==
    /\ currentWalletDirName \notin Keys(file.cfg)
    /\ \A r \in Outcomes : currentWalletDirName \notin Keys(r.cfg)

\* the directory found at the slot was registered under a typed name by a
\* successful first run, and an Edit can now give a wallet another name
C4_Witness ==
    /\ clean /\ file.present
    /\ SlotDir = "w2"
    /\ file.cfg.CurrentWallet \in Keys(file.cfg)
    /\ \E launch \in Dirs, argument \in NameLines :
          \E r \in mainEdit(Process(launch), argument) :
              Ok(r) /\ Keys(r.cfg) # Keys(file.cfg)

\* ------------------------------------------------------------------- C5
Writes(r) == { i \in 1..Len(r.ops) : r.ops[i].op = "write" }

\* C5: a run writes the config file at most once, as its last step and only
\* when the operation succeeded; a failing run leaves the file as it was.
C5_WriteOnceOnSuccess ==
    \A r \in Outcomes :
        /\ Cardinality(Writes(r)) <= 1
        /\ Writes(r) \subseteq {Len(r.ops)}
        /\ Writes(r) # {} => Ok(r) /\ r.file = [present |-> TRUE, cfg |-> r.cfg]
        /\ ~Ok(r) => r.file = file

\* a run fails after it changed the directories and the record in memory
C5_Witness ==
    \E r \in Outcomes :
        /\ ~Ok(r)
        /\ r.fs # fs
        /\ file.present /\ r.cfg.Wallets # file.cfg.Wallets
        /\ r.file = file

\* ------------------------------------------------------------------- C6
\* C6: every rename (and removal) of every run is made with the working
\* directory set to the wallets directory.
C6_RenamesInRoot ==
    \A r \in Outcomes : \A c \in Range(r.ops) :
        c.op \in {"rename", "removeall"} => c.cwd = Root

\* ------------------------------------------------------------------- C7
\* C7: Switch to the name that is activeWallet returns AlreadyActive and
\* changes nothing, for every record (name a key or not, empty or not) and
\* every directory layout; the run leaves file and directories as they were.
C7_AlreadyActive ==
    /\ \A m \in Started : \A name \in NameLines :
          LET x == [m EXCEPT !.cfg.CurrentWallet = name]
          IN  DoSwitch(x, name) = {Fail(x, AlreadyActive)}
    /\ file.present =>
          \A launch \in Dirs :
              \A r \in mainSwitch(Process(launch), file.cfg.CurrentWallet) :
                  r.err = AlreadyActive /\ r.fs = fs /\ r.file = file

\* the active wallet is a key and its directory is at the slot
C7_Witness ==
    /\ file.present
    /\ file.cfg.CurrentWallet \in Keys(file.cfg)
    /\ SlotDir \in WalletContents
    /\ \E launch \in Dirs :
          \E r \in mainSwitch(Process(launch), file.cfg.CurrentWallet) :
              r.err = AlreadyActive

\* ------------------------------------------------------------------- C8
\* C8: Switch to a name that is neither activeWallet nor a key of wallets
\* returns NotFound without any rename, record and directories unchanged.
C8_NotFound ==
    \A m \in Started : \A name \in NameLines :
        (name # m.cfg.CurrentWallet /\ name \notin Keys(m.cfg))
            => DoSwitch(m, name) = {Fail(m, NotFound)}

\* ------------------------------------------------------------------- C9
RenameCall(m, old, new) ==
    [op |-> "rename", old |-> old, new |-> new, cwd |-> m.cwd, errno |-> ""]

\* Switch(m, name) is called with a wallet p active, p # name, the slot
\* directory present and a directory present at the path name
C9_Case(m, name) ==
    /\ m.cfg.CurrentWallet # ""
    /\ m.cfg.CurrentWallet # name
    /\ name # currentWalletDirName
    /\ IsDirEntry(Entry(m.fs[m.cwd], currentWalletDirName))
    /\ IsDirEntry(Entry(m.fs[m.cwd], name))

\* C9: a successful Switch(name) with wallet p active and both directories
\* (the slot and the one at the path name) present renames "data" to p, then name to "data", sets activeWallet to
\* name, leaves wallets alone and touches no other directory.
C9_SwitchMoves ==
    \A m \in Started : \A name \in NameLines :
        C9_Case(m, name) =>
            \A r \in DoSwitch(m, name) :
                Ok(r) =>
                    LET p == m.cfg.CurrentWallet
                        d == m.fs[m.cwd]
                    IN  /\ r.ops = m.ops \o <<RenameCall(m, currentWalletDirName, p),
                                               RenameCall(m, name, currentWalletDirName)>>
                        /\ r.cfg = [m.cfg EXCEPT !.CurrentWallet = name]
                        /\ r.fs = [m.fs EXCEPT ![m.cwd] =
                                      [n \in FsNames |->
                                          IF n = p THEN d[currentWalletDirName]
                                          ELSE IF n = currentWalletDirName THEN d[name]
                                          ELSE IF n = name THEN Absent
                                          ELSE d[n]]]

C9_Witness ==
    \E m \in Started : \E name \in Keys(m.cfg) :
        /\ C9_Case(m, name)
        /\ \E r \in DoSwitch(m, name) : Ok(r)

C10_RoundTripCase ==
    \E m \in Started : \E b \in Keys(m.cfg) \ {m.cfg.CurrentWallet} :
        /\ m.cfg.CurrentWallet # ""
        /\ \E r1 \in DoSwitch(m, b) :
              /\ Ok(r1)
              /\ r1.fs # m.fs
              /\ \E r2 \in DoSwitch(r1, m.cfg.CurrentWallet) : Ok(r2)

Typing(m, names, descs, confirms) ==
    [m EXCEPT !.tty = [names |-> names, descs |-> descs, confirms |-> confirms]]

\* the process m at a terminal where every prompt is answered by the empty line
Defaults(m) == Typing(m, {""}, {""}, {""})

\* C11: Edit of an existing key with the empty line at the name prompt and at
\* the description prompt returns nil and leaves the record, the directories
\* and the list of file system calls as they were, whether the key is the
\* active wallet or not and whatever its stored description is.
C11_EditDefaults ==
    \A m \in Started : \A name \in Keys(m.cfg) :
        { r \in DoEdit(Defaults(m), name) : Returned(r) } = {Defaults(m)}

\* the same in the build of src/unnamed/part_001 alone
C11_SplitOnly == build = SplitBuild => C11_EditDefaults

\* the same for keys whose stored description is not empty
C11_NonEmptyDescription ==
    \A m \in Started : \A name \in Keys(m.cfg) :
        m.cfg.Wallets[name] # ""
            => { r \in DoEdit(Defaults(m), name) : Returned(r) } = {Defaults(m)}

\* ------------------------------------------------------------------- C12
\* names a user can give a wallet that are neither empty nor the slot's name
PlainNames == NameLines \ {"", currentWalletDirName}

\* the process m at a terminal that gives description d at the description prompt
Describing(m, d) == Typing(m, NameLines, {d}, ConfirmLines)

\* an empty record, and no entry called name in the wallets directory
C12_Case(m, name) ==
    /\ m.cfg.CurrentWallet = ""
    /\ Keys(m.cfg) = {}
    /\ Entry(m.fs[Root], name) = Absent

\* the runs of Add(name) with description d that returned and met no
\* unexpected failure of the file system
C12_Runs(m, name, d) ==
    { r \in Add(Describing(m, d), name) : Returned(r) /\ r.faults = m.faults }

\* C12: Add of a name without a directory on an empty record returns nil with
\* the entered description stored under the name and the name active, and
\* afterwards the slot directory "data" exists and no directory of that name.
C12_AddNew ==
    \A m \in Started : \A name \in PlainNames : \A d \in DescLines :
        C12_Case(m, name) =>
            \A r \in C12_Runs(m, name, d) :
                /\ r.err = ""
                /\ r.cfg.Wallets = Put(EmptyMap, name, d)
                /\ r.cfg.CurrentWallet = name
                /\ IsDirEntry(r.fs[Root][currentWalletDirName])
                /\ r.fs[Root][name] = Absent

\* what the code does there: the record is as claimed, and the directories
\* are untouched (the rename of the missing directory creates nothing)
C12_AddNewRecordOnly ==
    \A m \in Started : \A name \in PlainNames : \A d \in DescLines :
        C12_Case(m, name) =>
            /\ C12_Runs(m, name, d) # {}
            /\ \A r \in C12_Runs(m, name, d) :
                /\ r.err = ""
                /\ r.cfg.Wallets = Put(EmptyMap, name, d)
                /\ r.cfg.CurrentWallet = name
                /\ r.fs = m.fs

\* ------------------------------------------------------------------- C13
\* Add's validation of the directory: absent, or a wallet directory
C13_Valid(m, dirName) ==
    LET e == Entry(m.fs[m.cwd], dirName)
    IN  e = Absent \/ (IsDirEntry(e) /\ isWalletDir(m, m.cfg.WalletsDir, dirName))

\* the key addWallet registers dirName under when the user enters name n
C13_Key(dirName, n) == IF dirName = currentWalletDirName THEN n ELSE dirName

\* the runs of Add(dirName), the user entering n at the name prompt, that
\* returned and met no unexpected failure of the file system
C13_Runs(m, dirName, n) ==
    { r \in Add(Typing(m, {n}, DescLines, ConfirmLines), dirName)
      : Returned(r) /\ r.faults = m.faults }

\* Add(dirName) returns nil with the registered key active
C13_Activates(m, dirName, n) ==
    \A r \in C13_Runs(m, dirName, n) :
        /\ r.err = ""
        /\ C13_Key(dirName, n) \in Keys(r.cfg)
        /\ r.cfg.CurrentWallet = C13_Key(dirName, n)

\* C13: whenever Add(dirName) passes its validation of the directory and the
\* key it registers is not the active wallet, Add returns nil and the active
\* wallet is that key, for dirName = "data" too, where the key is the
\* non-reserved name the user entered.
C13_AddActivates ==
    \A m \in Started : \A dirName \in NameLines : \A n \in PlainNames :
        (C13_Valid(m, dirName) /\ C13_Key(dirName, n) # m.cfg.CurrentWallet)
            => C13_Activates(m, dirName, n)

\* Add("data") never returns nil with the entered name active
C13_AddSlotNeverActivates ==
    \A m \in Started : \A n \in PlainNames :
        \A r \in C13_Runs(m, currentWalletDirName, n) :
            ~(r.err = "" /\ r.cfg.CurrentWallet = n /\ n # m.cfg.CurrentWallet)

\* ------------------------------------------------------------------- C14
\* name is the active wallet and the only key
C14_Case(m, name) ==
    m.cfg.CurrentWallet = name /\ Keys(m.cfg) = {name}

\* the outcome r of Forget(m, name): nil, an empty record, the slot's
\* directory at the path name and nothing at the slot
C14_Forgotten(m, name, r) ==
    /\ r.err = ""
    /\ r.cfg.CurrentWallet = ""
    /\ Keys(r.cfg) = {}
    /\ IsDirEntry(m.fs[Root][currentWalletDirName])
           => Entry(r.fs[Root], name) = m.fs[Root][currentWalletDirName]
    /\ r.fs[Root][currentWalletDirName] = Absent

\* C14: Forget of the active wallet that is the only key returns nil with no
\* active wallet and no keys; the directory that was at the slot "data" is
\* afterwards at the path name and nothing is at the slot.
C14_ForgetLast ==
    \A m \in Started : \A name \in NameLines :
        C14_Case(m, name) =>
            \A r \in DoForget(m, name) :
                r.faults = m.faults => C14_Forgotten(m, name, r)

\* the same in the build of src/unnamed/part_001 when the path name is free
C14_ForgetLastSplitFree ==
    build = SplitBuild =>
        \A m \in Started : \A name \in NameLines :
            (C14_Case(m, name) /\ Entry(m.fs[Root], name) = Absent
             /\ (name = "" => m.fs[Root][currentWalletDirName] = Absent))
                => \A r \in DoForget(m, name) :
                       r.faults = m.faults => C14_Forgotten(m, name, r)

\* ------------------------------------------------------------------- C15
\* the process m at a terminal that answers the confirmation prompt with c
Confirming(m, c) == Typing(m, NameLines, DescLines, {c})

\* the `remove name` subcommand of process m answered with c, to its return
C15_Runs(m, name, c) ==
    { r \in wrapSubcommand(Remove(Confirming(m, c), name)) : Returned(r) }

\* C15: Remove of an existing key answered with any line other than exactly
\* "yes" ("no", the empty line, "Yes", "yes ") fails with Aborted, and the
\* record in memory, the record on file, the directories and the list of
\* file system calls are as before.
C15_Aborted ==
    \A m \in Started : \A name \in Keys(m.cfg) :
        \A c \in ConfirmLines \ {"yes"} :
            C15_Runs(m, name, c) = {Fail(Confirming(m, c), Aborted)}

\* an unconfirmed Remove of a wallet whose directory is on disk
C15_Witness ==
    /\ build = SplitBuild
    /\ \E m \in Started : \E name \in Keys(m.cfg) :
        /\ IsDirEntry(Entry(m.fs[Root], name))
        /\ name # m.cfg.CurrentWallet
        /\ Fail(Confirming(m, "Yes"), Aborted) \in C15_Runs(m, name, "Yes")
        /\ Fail(Confirming(m, "yes "), Aborted) \in C15_Runs(m, name, "yes ")
    /\ \E launch \in Dirs : \E r \in mainRemove(Process(launch), "a") :
        r.err = Aborted /\ r.fs = fs /\ r.file = file

\* ------------------------------------------------------------------- C16
\* the runs of Init the entry point makes when launched in directory launch:
\* the `init` subcommand, and the initialisation after a failed load
C16_InitRuns(launch) ==
    mainInit(Process(launch))
    \cup { q.m : q \in { x \in loadConfig(Process(launch)) : x.done } }

\* the wallet directories Init discovers from the current state
C16_Discovered == Range(getWallets(Process(Root), Root))

\* after the run r a wallet is active and its directory is at the slot
C16_ActiveAtSlot(r) ==
    /\ r.cfg.CurrentWallet # ""
    /\ IsDirEntry(r.fs[Root][currentWalletDirName])
    /\ r.fs[Root][currentWalletDirName]
           \in {fs[Root][currentWalletDirName], Entry(fs[Root], r.cfg.CurrentWallet)}

\* C16: after every Init that returned nil, run by the `init` subcommand or
\* after a failed load of the config, if a wallet directory was discovered
\* then a wallet is active and the slot "data" holds that wallet's directory.
C16_InitActivates ==
    \A launch \in Dirs : \A r \in C16_InitRuns(launch) :
        (r.err = "" /\ C16_Discovered # {}) => C16_ActiveAtSlot(r)

\* the same for the processes launched inside the wallets directory
C16_InitActivatesInRoot ==
    \A r \in C16_InitRuns(Root) :
        (r.err = "" /\ C16_Discovered # {}) => C16_ActiveAtSlot(r)

\* the same for the initialisation after a failed load, which follows os.Chdir
C16_InitActivatesAfterLoad ==
    \A launch \in Dirs :
        \A r \in { q.m : q \in { x \in loadConfig(Process(launch)) : x.done } } :
            (r.err = "" /\ C16_Discovered # {}) => C16_ActiveAtSlot(r)

\* ------------------------------------------------------------------- C17
\* name is the active wallet and is not the only key
C17_Case(m, name) ==
    /\ m.cfg.CurrentWallet = name
    /\ name \in Keys(m.cfg)
    /\ Keys(m.cfg) \ {name} # {}

\* the outcome r of Forget(m, name): name is no key any more, one of the
\* remaining keys is active with its directory at the slot, and a directory
\* is at the path name, the one that was at the slot if there was one
C17_Reactivated(m, name, r) ==
    /\ Keys(r.cfg) = Keys(m.cfg) \ {name}
    /\ r.cfg.CurrentWallet \in Keys(r.cfg)
    /\ r.cfg.CurrentWallet # name
    /\ IsDirEntry(r.fs[Root][currentWalletDirName])
    /\ r.fs[Root][currentWalletDirName] = Entry(m.fs[Root], r.cfg.CurrentWallet)
    /\ IsDirEntry(Entry(r.fs[Root], name))
    /\ IsDirEntry(m.fs[Root][currentWalletDirName])
           => Entry(r.fs[Root], name) = m.fs[Root][currentWalletDirName]

\* C17: a Forget of the active wallet that returns nil while other wallets
\* remain puts the slot directory back under the path name, removes the key
\* and activates one of the remaining keys: the active wallet is then a key
\* other than name, its directory is at the slot, and the forgotten wallet's
\* directory exists under its own name.
C17_ForgetActive ==
    \A m \in Started : \A name \in NameLines :
        C17_Case(m, name) =>
            \A r \in DoForget(m, name) :
                r.err = "" => C17_Reactivated(m, name, r)

\* the same when the slot holds a directory and every other key has a
\* directory under its own name
C17_ForgetActiveOnDisk ==
    \A m \in Started : \A name \in NameLines :
        (/\ C17_Case(m, name)
         /\ IsDirEntry(m.fs[Root][currentWalletDirName])
         /\ \A k \in Keys(m.cfg) \ {name} : IsDirEntry(Entry(m.fs[Root], k)))
            => \A r \in DoForget(m, name) :
                   r.err = "" => C17_Reactivated(m, name, r)

\* ------------------------------------------------------------------- C18
\* the directory of wallet k in process m: the slot's for the active wallet,
\* the one under its own name for the others
WalletDir(m, k) ==
    IF k = m.cfg.CurrentWallet THEN m.fs[Root][currentWalletDirName]
    ELSE Entry(m.fs[Root], k)

\* the wallet directory contents present in the wallets directory of m
Present(m) == { m.fs[Root][n] : n \in FsNames } \cap WalletContents

\* the runs of Remove(m, name) confirmed with "yes"
C18_Runs(m, name) == Remove(Confirming(m, "yes"), name)

\* the outcome r of a Remove: os.RemoveAll(name) is the last call and follows
\* a Forget that returned nil, whose record is the final one
C18_ForgetThenDelete(m, name, r) ==
    /\ r.ops # <<>>
    /\ r.ops[Len(r.ops)].op = "removeall"
    /\ r.ops[Len(r.ops)].old = name
    /\ \A i \in 1..(Len(r.ops) - 1) : r.ops[i].op # "removeall"
    /\ \E x \in Forget(Confirming(m, "yes"), name) :
          x.err = "" /\ x.cfg = r.cfg /\ x.ops = SubSeq(r.ops, 1, Len(r.ops) - 1)

\* the outcome r: name is no key, nothing is at the path name, nothing is
\* gone but the directory of wallet name (the slot's when name was active and
\* the slot held a directory, else the one under the name), and the directory
\* of every other wallet is present
C18_OnlyItsDirectory(m, name, r) ==
    /\ name \notin Keys(r.cfg)
    /\ Entry(r.fs[Root], name) = Absent
    /\ Present(m) \ Present(r) \subseteq {WalletDir(m, name), Entry(m.fs[Root], name)}
    /\ \A k \in Keys(m.cfg) \ {name} :
          WalletDir(m, k) \in WalletContents => WalletDir(m, k) \in Present(r)

\* C18: a Remove confirmed with "yes" that returns nil has performed Forget
\* and then the deletion: name is no key, no directory is at the path name,
\* the directory deleted is the one of wallet name (the former slot directory
\* when name was active) and every other wallet's directory is still there.
C18_RemoveDeletesOwn ==
    \A m \in Started : \A name \in Keys(m.cfg) :
        \A r \in C18_Runs(m, name) :
            r.err = "" => /\ C18_ForgetThenDelete(m, name, r)
                          /\ C18_OnlyItsDirectory(m, name, r)

\* a Remove of the active wallet, whose directory is at the slot while another
\* wallet's directory is under its own name, that returned nil
C18_Witness ==
    /\ build = SplitBuild
    /\ \E m \in Started : \E name \in Keys(m.cfg) : \E k \in Keys(m.cfg) \ {name} :
        /\ name = m.cfg.CurrentWallet
        /\ WalletDir(m, name) \in WalletContents
        /\ WalletDir(m, k) \in WalletContents
        /\ \E r \in C18_Runs(m, name) :
              /\ r.err = ""
              /\ WalletDir(m, name) \notin Present(r)
              /\ r.fs[Root][currentWalletDirName] = WalletDir(m, k)
              /\ r.cfg.CurrentWallet = k

\* ------------------------------------------------------------------- C19
\* the runs of Edit(m, name), the user entering n at the name prompt, that
\* returned nil
C19_Runs(m, name, n) ==
    { r \in DoEdit(Typing(m, {n}, DescLines, ConfirmLines), name) : r.err = "" }

\* the outcome r has as many keys as m, and every key but name is kept
\* with its description
C19_Kept(m, name, r) ==
    /\ Cardinality(Keys(r.cfg)) = Cardinality(Keys(m.cfg))
    /\ \A k \in Keys(m.cfg) \ {name} :
          k \in Keys(r.cfg) /\ r.cfg.Wallets[k] = m.cfg.Wallets[k]

\* C19: an Edit that returns nil never changes the number of keys: for every
\* key and every line entered as the new name, a name that is another key
\* included, the map has as many keys as before and every other wallet keeps
\* its key and description.
C19_EditKeepsSize ==
    \A m \in Started : \A name \in Keys(m.cfg) : \A n \in NameLines :
        \A r \in C19_Runs(m, name, n) : C19_Kept(m, name, r)

\* the same for the new names that are not another key
C19_EditKeepsSizeFreshName ==
    \A m \in Started : \A name \in Keys(m.cfg) : \A n \in NameLines :
        n \notin Keys(m.cfg) \ {name}
            => \A r \in C19_Runs(m, name, n) : C19_Kept(m, name, r)

\* an Edit to a name that is another key always loses a key
C19_EditOntoKeyShrinks ==
    \A m \in Started : \A name \in Keys(m.cfg) : \A n \in NameLines \ {""} :
        n \in Keys(m.cfg) \ {name}
            => \A r \in C19_Runs(m, name, n) :
                   Cardinality(Keys(r.cfg)) = Cardinality(Keys(m.cfg)) - 1

\* ------------------------------------------------------------------- C20
\* C20: in every state the program's operations reach without a failure of
\* the file system from outside, Switch to any key other than the active
\* wallet returns nil; so it does after Add has registered and activated a
\* wallet that has no directory.
C20_SwitchSucceeds ==
    faults = 0 =>
        \A m \in Started : \A name \in Keys(m.cfg) \ {m.cfg.CurrentWallet} :
            \A r \in DoSwitch(m, name) : r.faults = m.faults => r.err = ""

\* with a wallet active and nothing at the slot no Switch returns nil: the
\* rename of the slot back to the active wallet's name fails
C20_NoSlotNoSwitch ==
    \A m \in Started : \A name \in Keys(m.cfg) \ {m.cfg.CurrentWallet} :
        (m.cfg.CurrentWallet # "" /\ m.fs[Root][currentWalletDirName] = Absent)
            => \A r \in DoSwitch(m, name) : r.err = IOError

\* every Add of a name without a directory that returns nil, made with a
\* wallet active or nothing at the slot, ends with the new name active and
\* nothing at the slot
C20_AddNewLeavesNoSlot ==
    \A m \in Started : \A name \in PlainNames :
        (/\ Entry(m.fs[Root], name) = Absent
         /\ name \notin Keys(m.cfg)
         /\ m.cfg.CurrentWallet # "" \/ m.fs[Root][currentWalletDirName] = Absent)
            => \A r \in Add(m, name) :
                   r.err = "" => /\ r.cfg.CurrentWallet = name
                                 /\ r.fs[Root][currentWalletDirName] = Absent

\* ------------------------------------------------------------------- C21
\* the process m at a terminal that never answers "yes" to a confirmation
Unconfirming(m) == Typing(m, NameLines, DescLines, ConfirmLines \ {"yes"})

\* every way a run of the program can end from the current state when no
\* Remove is confirmed: init, status, switch, edit, add, forget, and remove
\* answered with anything but "yes", returned or ended at the end of input
C21_Runs ==
    UNION { mainInit(Process(launch)) \cup mainStatus(Process(launch))
            \cup UNION { mainSwitch(Process(launch), argument)
                         \cup mainEdit(Process(launch), argument)
                         \cup mainAdd(Process(launch), argument)
                         \cup mainForget(Process(launch), argument)
                         \cup mainRemove(Unconfirming(Process(launch)), argument)
                       : argument \in NameLines }
          : launch \in Dirs }

\* the wallet directory contents in the wallets directory of a file system
Contents(dirfs) == { dirfs[n] : n \in FsNames } \cap WalletContents

\* C21: no operation other than a Remove confirmed with "yes" deletes or
\* overwrites a wallet directory: every run of init, switch, edit, add,
\* forget and unconfirmed remove, whether it returns nil, fails or ends at the
\* end of the input, leaves in the wallets directory exactly the wallet
\* directory contents it found, under the same or other names.
C21_ContentsKept ==
    \A r \in C21_Runs :
        /\ Contents(r.fs[Root]) = Contents(fs[Root])
        /\ \A c \in Contents(fs[Root]) :
              Cardinality({ n \in FsNames : r.fs[Root][n] = c }) = 1

\* a run that moved wallet directories to other names, and a run that failed
\* after its first rename, both with two wallet directories in place
C21_Witness ==
    /\ Cardinality(Contents(fs[Root])) >= 2
    /\ file.present
    /\ \E r \in C21_Runs :
          /\ r.err = ""
          /\ r.fs[Root] # fs[Root]
          /\ Cardinality({ n \in FsNames : r.fs[Root][n] # fs[Root][n] }) = 3
    /\ \E r \in C21_Runs :
          /\ r.err = IOError
          /\ r.fs[Root] # fs[Root]

\* ------------------------------------------------------------------- C22
\* the process m at a terminal that answers the name prompt with n
Naming(m, n) == Typing(m, {n}, DescLines, ConfirmLines)

\* the runs of Init the entry point makes when launched in directory launch,
\* the user entering n as the name of the "data" wallet, that returned nil
C22_Runs(launch, n) ==
    { r \in mainInit(Naming(Process(launch), n))
            \cup { q.m : q \in { x \in loadConfig(Naming(Process(launch), n))
                                 : x.done } }
      : r.err = "" }

\* the number of wallet directories discovery returns from the current state
C22_Found == Len(getWallets(Process(Root), Root))

\* C22: after an Init that returned nil the record has exactly one key for
\* each discovered wallet directory, whatever name the user gave to the slot
\* directory "data", the name of another discovered directory included.
C22_OneKeyPerDirectory ==
    \A launch \in Dirs : \A n \in NameLines : \A r \in C22_Runs(launch, n) :
        Cardinality(Keys(r.cfg)) = C22_Found

\* the same for the names that are not a discovered directory's name
C22_OneKeyPerDirectoryFreshName ==
    \A launch \in Dirs : \A n \in NameLines \ C16_Discovered :
        \A r \in C22_Runs(launch, n) :
            Cardinality(Keys(r.cfg)) = C22_Found

\* when the slot directory is given the name of another discovered directory
\* the record has one key fewer than there are directories
C22_CollisionLosesKey ==
    \A launch \in Dirs : \A n \in C16_Discovered \ {currentWalletDirName} :
        currentWalletDirName \in C16_Discovered
            => \A r \in C22_Runs(launch, n) :
                   Cardinality(Keys(r.cfg)) = C22_Found - 1

====
